---- MODULE Spec2Model ----
(***************************************************************************)
(* Model of the Spotify MCP server: the access-token lifecycle             *)
(* (ensureAccessToken, spotify-client.ts), the facade operations that call *)
(* it, and the tool handlers registered in index.ts.                       *)
(*                                                                         *)
(* Time is in milliseconds, as Date.now() gives it.  A tool invocation is  *)
(* an asynchronous call chain: it runs synchronously up to its next await  *)
(* of network I/O, so each action below is one such synchronous run.  The  *)
(* continuation of an await on an already settled promise runs in the same *)
(* microtask checkpoint, before any network callback, and is part of the   *)
(* same action.                                                            *)
(***************************************************************************)
EXTENDS Integers, Sequences, FiniteSets, TLC

\* ---------------------------------------------------------------- bounds
\* The clock advances in steps of Tick ms, at most MaxTicks times.
Tick == 30000
MaxTicks == 4
\* At most MaxGrants grants succeed (each yields a fresh token value).
MaxGrants == 2
\* The user has at most MaxPlaylists playlists.
MaxPlaylists == 2

\* The tool invocations that may be in progress at the same time.
Procs == {1, 2}
\* expires_in values (seconds) a grant response may carry.
Lifetimes == {30, 150, 180}
\* Values of process.env.SPOTIFY_REFRESH_TOKEN: unset, empty, or a token.
Undefined == "undefined"
RefreshEnvValues == {Undefined, "", "refresh-token"}

\* ------------------------------------------------------ program constants
\* The 60000 of `tokenExpirationTime - 60000` and `... * 1000 - 60000`.
Margin == 60000
\* The 1000 of `expires_in * 1000`.
MsPerSecond == 1000

VARIABLES
  clock,                \* what Date.now() returns
  refreshEnv,           \* process.env.SPOTIFY_REFRESH_TOKEN
  accessToken,          \* spotifyApi's access token: 0 (none) or a token id
  tokenExpirationTime,  \* module variable tokenExpirationTime
  stored,               \* the remote service's record of the stored token
  tokenSeq,             \* number of tokens the remote service has issued
  pc,                   \* per invocation: where its call chain is suspended
  tool,                 \* per invocation: the tool invoked
  shuffle,              \* per invocation: the shuffle argument
  opIdx,                \* per invocation: index of the facade operation running
  reqIdx,               \* per invocation: index of the remote request in flight
  req,                  \* per invocation: the network call it is awaiting
  now,                  \* per invocation: `now` of its ensureAccessToken call
  ensured,              \* per invocation: how the ensureAccessToken call went
                        \* that led to its present await or to its throwing
                        \* (history)
  result,               \* per invocation: how the handler ended
  arg,                  \* per invocation: the tool's trackId, playlistId or
                        \* name argument
  playlists,            \* per invocation: `playlists` of spotify-find-playlist
  opId,                 \* per invocation: trackId / playlistId of the facade
                        \* operation running
  sent                  \* per invocation: the argument the request in flight
                        \* carries

vars == <<clock, refreshEnv, accessToken, tokenExpirationTime, stored, tokenSeq,
          pc, tool, shuffle, opIdx, reqIdx, req, now, ensured, result,
          arg, playlists, opId, sent>>

tokenVars == <<accessToken, tokenExpirationTime, stored, tokenSeq>>

\* ------------------------------------------------------ ensureAccessToken
\* JavaScript truthiness of an environment value.
Truthy(v) == v # Undefined /\ v # ""

\* `if (now >= tokenExpirationTime - 60000)`
\* (faulty variants first: `>` for `>=`; a single-flight guard)
ShouldRefreshStrict(n, exp) == n > exp - Margin
ShouldRefreshSingleFlight(n, exp) ==
  n >= exp - Margin /\ \A q \in Procs : pc[q] # "grant"
ShouldRefresh(n, exp) == n >= exp - Margin

\* `if (process.env.SPOTIFY_REFRESH_TOKEN) refreshAccessToken()
\*  else clientCredentialsGrant()`
\* (faulty variant first: the flow does not depend on the credential)
GrantFlowAlwaysRefresh(env) == "refresh_token"
GrantFlow(env) ==
  IF Truthy(env) THEN "refresh_token" ELSE "client_credentials"

\* `tokenExpirationTime = now + expires_in * 1000 - 60000`
\* (faulty variants first: the time of the response for `now`; seconds not
\* converted; the margin added)
NewExpirationAtResponse(n, expiresIn) == clock + expiresIn * MsPerSecond - Margin
NewExpirationSeconds(n, expiresIn) == n + expiresIn - Margin
NewExpirationPlusMargin(n, expiresIn) == n + expiresIn * MsPerSecond + Margin
NewExpiration(n, expiresIn) == n + expiresIn * MsPerSecond - Margin

\* The grant that produced the stored token: `calledAt` is the `now` of the
\* call that requested it, `issuedAt` the time the remote service issued it
\* (it is valid there until issuedAt + expires_in seconds), `doneAt` the time
\* its response was processed.
NoStored == [id |-> 0, calledAt |-> 0, issuedAt |-> 0, doneAt |-> 0,
             expires_in |-> 0]
NoResult == [kind |-> "none", text |-> <<>>]

\* ---------------------------------------------------------------- strings
\* A string the code takes apart is the sequence of its pieces; `+` and
\* template literals are \o.
StartsWith(s, prefix) ==
  Len(s) >= Len(prefix) /\ SubSeq(s, 1, Len(prefix)) = prefix

\* s.includes(t)
Includes(s, t) ==
  \E i \in 1 .. (Len(s) - Len(t) + 1) : SubSeq(s, i, i + Len(t) - 1) = t

\* s.toLowerCase(), over the words used in names here.
LowerWord(w) ==
  CASE w \in {"Roadtrip", "ROADTRIP"} -> "roadtrip"
    [] w = "Summer" -> "summer"
    [] w = "Chill" -> "chill"
    [] OTHER -> w
ToLowerCase(s) == [i \in 1 .. Len(s) |-> LowerWord(s[i])]

\* No argument of that kind (the operation or request takes none).
NoArg == <<Undefined>>

TrackPrefix == <<"spotify", ":", "track", ":">>
PlaylistPrefix == <<"spotify", ":", "playlist", ":">>

\* `trackId.startsWith("spotify:track:") ? trackId : `spotify:track:${trackId}``
\* (faulty variant first: the prefix is put in front of every input)
TrackUriAlwaysPrefixed(trackId) == TrackPrefix \o trackId
TrackUri(trackId) ==
  IF StartsWith(trackId, TrackPrefix) THEN trackId ELSE TrackPrefix \o trackId

\* `playlistId.startsWith("spotify:playlist:") ? playlistId
\*    : `spotify:playlist:${playlistId}``
PlaylistUri(playlistId) ==
  IF StartsWith(playlistId, PlaylistPrefix) THEN playlistId
  ELSE PlaylistPrefix \o playlistId

\* ------------------------------------------------------------ index.ts
Tools == {"spotify-search", "spotify-play", "spotify-currently-playing",
          "spotify-devices", "spotify-playlists", "spotify-playlist-tracks",
          "spotify-play-playlist", "spotify-search-and-play",
          "spotify-find-playlist", "spotify-debug"}

\* Tools whose schema has the optional boolean `shuffle`.
ShuffleTools == {"spotify-play-playlist", "spotify-find-playlist"}
ShuffleValues(t) == IF t \in ShuffleTools THEN {Undefined, "true", "false"}
                    ELSE {Undefined}

\* The facade operations a handler calls, in order (the second one of a
\* convenience tool only when the first one found something).
HandlerOps(t) ==
  CASE t = "spotify-search"            -> <<"searchTracks">>
    [] t = "spotify-play"              -> <<"playTrack">>
    [] t = "spotify-currently-playing" -> <<"getCurrentlyPlaying">>
    [] t = "spotify-devices"           -> <<"getDevices">>
    [] t = "spotify-playlists"         -> <<"getUserPlaylists">>
    [] t = "spotify-playlist-tracks"   -> <<"getPlaylistTracks">>
    [] t = "spotify-play-playlist"     -> <<"playPlaylist">>
    [] t = "spotify-search-and-play"   -> <<"searchTracks", "playTrack">>
    [] t = "spotify-find-playlist"     -> <<"getUserPlaylists", "playPlaylist">>
    [] t = "spotify-debug"             -> <<"debugSpotifyConfig">>

\* Tools whose schema has an identifier (`trackId`, `playlistId`), and the
\* values given for it: a bare id, a track URI, a playlist URI, the empty
\* string (z.string() admits it).
IdTools == {"spotify-play", "spotify-playlist-tracks", "spotify-play-playlist"}
BareId == <<"abc">>
IdInputs == {BareId, TrackPrefix \o BareId, PlaylistPrefix \o BareId, <<>>}
\* Values given for `name` of spotify-find-playlist.
NameInputs == {<<"roadtrip">>, <<"Chill">>, <<"Summer", " ", "Roadtrip">>,
               <<"jazz">>, <<>>}
ArgValues(t) ==
  IF t \in IdTools THEN IdInputs
  ELSE IF t = "spotify-find-playlist" THEN NameInputs
  ELSE {NoArg}

\* One value of the argument: a bare id, the name "roadtrip".
PlainArg(t) ==
  IF t \in IdTools THEN BareId
  ELSE IF t = "spotify-find-playlist" THEN <<"roadtrip">>
  ELSE NoArg

\* The identifier the handler passes to its first facade operation.
FirstOpId(t, a) == IF t \in IdTools THEN a ELSE NoArg

\* The playlists of the user: what JSON.parse(playlistsResult[0].text) gives,
\* a list of at most MaxPlaylists playlists, all different.
UserPlaylists ==
  {[id |-> <<"p1">>, name |-> <<"Summer", " ", "Roadtrip">>],
   [id |-> <<"p2">>, name |-> <<"Chill">>],
   [id |-> <<"p3">>, name |-> <<"ROADTRIP">>]}
PlaylistLists ==
  {l \in UNION {[1 .. n -> UserPlaylists] : n \in 1 .. MaxPlaylists} :
     \A i, j \in 1 .. Len(l) : l[i] = l[j] => i = j}

\* Two lists: the playlists "Chill" and "Summer Roadtrip"; "Chill" alone.
PlainPlaylists ==
  {<<[id |-> <<"p2">>, name |-> <<"Chill">>],
     [id |-> <<"p1">>, name |-> <<"Summer", " ", "Roadtrip">>]>>,
   <<[id |-> <<"p2">>, name |-> <<"Chill">>]>>}

\* `playlists.filter(playlist =>
\*     playlist.name.toLowerCase().includes(name.toLowerCase()))`
IsMatch(playlist, name) ==
  Includes(ToLowerCase(playlist.name), ToLowerCase(name))
MatchingPlaylists(pls, name) ==
  SelectSeq(pls, LAMBDA playlist : IsMatch(playlist, name))

\* `const playlist = matchingPlaylists[0]`
\* (faulty variant first: the last match)
ChosenPlaylistLast(matching) == matching[Len(matching)]
ChosenPlaylist(matching) == matching[1]

\* Is the k-th facade call of the handler inside a try block of the handler?
\* (faulty variant first: every handler catches)
HandlerCatchesAll(t, k) == TRUE
HandlerCatches(t, k) ==
  \/ t = "spotify-find-playlist"
  \/ t = "spotify-search-and-play" /\ k = 2

\* The text of the handler's catch block.
HandlerCatchText(t, err) ==
  IF t = "spotify-find-playlist"
  THEN <<"Error trying to find and play playlist: ", err>>
  ELSE <<"Error trying to play track: ", err>>

\* ------------------------------------------------- spotify-client.ts
\* `shuffle: boolean = false`: an undefined argument takes the default.
\* (faulty variant first: no default value)
ShuffleParamNoDefault(sh) == sh
ShuffleParam(sh) == IF sh = Undefined THEN "false" ELSE sh

\* The remote requests of a facade operation, in order.
OpRequests(op, sh) ==
  CASE op = "searchTracks"        -> <<"searchTracks">>
    [] op = "playTrack"           -> <<"play">>
    [] op = "getCurrentlyPlaying" -> <<"getMyCurrentPlayingTrack">>
    [] op = "getDevices"          -> <<"getMyDevices">>
    [] op = "getUserPlaylists"    -> <<"getUserPlaylists">>
    [] op = "getPlaylistTracks"   -> <<"getPlaylist", "getPlaylistTracks">>
    [] op = "playPlaylist"        ->
         IF ShuffleParam(sh) # Undefined
         THEN <<"getPlaylist", "setShuffle", "play">>
         ELSE <<"getPlaylist", "play">>
    [] op = "debugSpotifyConfig"  -> <<"getMe", "getMyDevices">>

\* The argument a request of a facade operation carries: the identifier, or
\* the shuffle flag.
RequestArg(op, r, id, sh) ==
  CASE op = "playTrack" -> TrackUri(id)
    [] op = "getPlaylistTracks" -> id
    [] op = "playPlaylist" /\ r = "getPlaylist" -> id
    [] op = "playPlaylist" /\ r = "setShuffle" -> <<ShuffleParam(sh)>>
    [] op = "playPlaylist" /\ r = "play" -> PlaylistUri(id)
    [] OTHER -> NoArg

\* Is `await ensureAccessToken()` inside the operation's try block?
EnsureInsideTry(op) == op = "debugSpotifyConfig"

\* Does a failed request end the operation (its catch block returns), or
\* does the operation go on (debugSpotifyConfig's inner try blocks)?
RequestFailureEndsOp(op) == op # "debugSpotifyConfig"

\* What the remote service may answer to a request that succeeds.
Answers(r) ==
  IF r \in {"searchTracks", "getUserPlaylists", "getMyCurrentPlayingTrack",
            "getMyDevices", "getPlaylistTracks"}
  THEN {"items", "empty"} ELSE {"ok"}

\* String(error) of a failed remote request, as the set of the known
\* substrings it contains.
Markers == {"NOT_PREMIUM", "PERMISSION", "NO_ACTIVE_DEVICE"}
RemoteErrors == SUBSET Markers

AuthErrorMessage == "Failed to authenticate with Spotify"
AuthErrorString == "Error: Failed to authenticate with Spotify"

\* ensureAccessToken's catch blocks: the inner one (refresh flow) rethrows,
\* the outer one replaces whatever was thrown by one message.
\* (so the message does not depend on the flow that failed).
EnsureThrows(flow) == AuthErrorMessage

NoTracksText == <<"No tracks found matching your query.">>
NoPlaylistsText == <<"No playlists found.">>
\* Does JSON.parse(text) succeed?
\* (faulty variant first: any text is taken for a result)
IsJsonAnyText(text) == TRUE
IsJson(text) == Len(text) > 0 /\ text[1] = "json"

\* `shuffle ? "on shuffle mode" : "in order"`
ShuffleWords(sh) == IF sh = "true" THEN "on shuffle mode" ELSE "in order"

\* What a facade operation returns when its last request succeeded.
OpOkText(op, sh, a) ==
  CASE op = "searchTracks" ->
         IF a = "items" THEN <<"json", "tracks">> ELSE NoTracksText
    [] op = "playTrack" -> <<"Now playing track with URI: ">>
    [] op = "getCurrentlyPlaying" ->
         IF a = "items" THEN <<"json", "track">>
         ELSE <<"No track currently playing.">>
    [] op = "getDevices" ->
         IF a = "items" THEN <<"json", "devices">>
         ELSE <<"No available Spotify devices found.">>
    [] op = "getUserPlaylists" ->
         IF a = "items" THEN <<"json", "playlists">> ELSE NoPlaylistsText
    [] op = "getPlaylistTracks" ->
         IF a = "items" THEN <<"json", "playlist tracks">>
         ELSE <<"Playlist is empty.">>
    [] op = "playPlaylist" ->
         <<"Now playing playlist ", ShuffleWords(ShuffleParam(sh))>>
    [] op = "debugSpotifyConfig" ->
         <<"=== Spotify MCP Configuration Debug ===",
           "Successfully obtained access token">>

\* The catch block of playTrack and playPlaylist.
\* (faulty variant first: NO_ACTIVE_DEVICE is looked for first)
PlaybackErrorTextDeviceFirst(prefix, err) ==
  IF "NO_ACTIVE_DEVICE" \in err
  THEN <<"Error: No active Spotify playback device found. Please open Spotify on a device first.">>
  ELSE IF "NOT_PREMIUM" \in err
  THEN <<"Error: This functionality requires a Spotify Premium account.">>
  ELSE IF "PERMISSION" \in err
  THEN <<"Error: Missing required permissions. Make sure your refresh token has the user-modify-playback-state scope.">>
  ELSE <<prefix, err>>
PlaybackErrorText(prefix, err) ==
  IF "NOT_PREMIUM" \in err
  THEN <<"Error: This functionality requires a Spotify Premium account.">>
  ELSE IF "PERMISSION" \in err
  THEN <<"Error: Missing required permissions. Make sure your refresh token has the user-modify-playback-state scope.">>
  ELSE IF "NO_ACTIVE_DEVICE" \in err
  THEN <<"Error: No active Spotify playback device found. Please open Spotify on a device first.">>
  ELSE <<prefix, err>>

\* What a facade operation returns from its catch block.
OpErrorText(op, err) ==
  CASE op = "searchTracks" -> <<"Error searching for tracks: ", err>>
    [] op = "playTrack" -> PlaybackErrorText("Error playing track: ", err)
    [] op = "getCurrentlyPlaying" ->
         <<"Error getting currently playing track: ", err>>
    [] op = "getDevices" -> <<"Error getting devices: ", err>>
    [] op = "getUserPlaylists" -> <<"Error getting user playlists: ", err>>
    [] op = "getPlaylistTracks" -> <<"Error getting playlist tracks: ", err>>
    [] op = "playPlaylist" -> PlaybackErrorText("Error playing playlist: ", err)
    [] op = "debugSpotifyConfig" ->
         <<"=== Spotify MCP Configuration Debug ===",
           "Failed to get access token: ", err>>

\* ---------------------------------------------------------------- steps
TypeOK ==
  /\ clock \in 0 .. (MaxTicks * Tick)
  /\ refreshEnv \in RefreshEnvValues
  /\ accessToken \in 0 .. MaxGrants
  /\ tokenExpirationTime \in Int
  /\ tokenSeq \in 0 .. MaxGrants
  /\ pc \in [Procs -> {"idle", "grant", "request", "done"}]
  /\ tool \in [Procs -> Tools \cup {"none"}]
  /\ opIdx \in [Procs -> 0 .. 2]
  /\ reqIdx \in [Procs -> 0 .. 3]
  /\ now \in [Procs -> 0 .. (MaxTicks * Tick)]
  /\ ensured \in [Procs -> {"none", "pending", "skipped", "granted", "threw"}]
  /\ arg \in [Procs -> IdInputs \cup NameInputs \cup {NoArg}]
  /\ playlists \in [Procs -> PlaylistLists \cup {<<>>}]

\* tokenExpirationTime = 0 and no access token; Date.now() is not negative.
Init ==
  /\ clock = 0
  /\ refreshEnv \in RefreshEnvValues
  /\ accessToken = 0
  /\ tokenExpirationTime = 0
  /\ stored = NoStored
  /\ tokenSeq = 0
  /\ pc = [p \in Procs |-> "idle"]
  /\ tool = [p \in Procs |-> "none"]
  /\ shuffle = [p \in Procs |-> Undefined]
  /\ opIdx = [p \in Procs |-> 0]
  /\ reqIdx = [p \in Procs |-> 0]
  /\ req = [p \in Procs |-> "none"]
  /\ now = [p \in Procs |-> 0]
  /\ ensured = [p \in Procs |-> "none"]
  /\ result = [p \in Procs |-> NoResult]
  /\ arg = [p \in Procs |-> NoArg]
  /\ playlists = [p \in Procs |-> <<>>]
  /\ opId = [p \in Procs |-> NoArg]
  /\ sent = [p \in Procs |-> NoArg]

SetProc(p, newPc, k, r, rq, n, e, res) ==
  /\ pc' = [pc EXCEPT ![p] = newPc]
  /\ opIdx' = [opIdx EXCEPT ![p] = k]
  /\ reqIdx' = [reqIdx EXCEPT ![p] = r]
  /\ req' = [req EXCEPT ![p] = rq]
  /\ now' = [now EXCEPT ![p] = n]
  /\ ensured' = [ensured EXCEPT ![p] = e]
  /\ result' = [result EXCEPT ![p] = res]

\* The locals of the handler and of the facade operation it awaits.
SetLocals(p, pls, id, s) ==
  /\ playlists' = [playlists EXCEPT ![p] = pls]
  /\ opId' = [opId EXCEPT ![p] = id]
  /\ sent' = [sent EXCEPT ![p] = s]

\* The handler returns (kind "text") or throws (kind "exception").
Finish(p, kind, text, e) ==
  /\ SetProc(p, "done", opIdx[p], 0, "none", 0, IF e = "threw" THEN e ELSE "none",
             [kind |-> kind, text |-> text])
  /\ SetLocals(p, <<>>, NoArg, NoArg)

\* The operation issues its r-th remote request and awaits the response.
SendRequest(p, t, sh, k, r, e, pls, id) ==
  LET op == HandlerOps(t)[k]
      rq == OpRequests(op, sh)[r]
  IN  /\ SetProc(p, "request", k, r, rq, 0, e, NoResult)
      /\ SetLocals(p, pls, id, RequestArg(op, rq, id, sh))

\* The handler calls its k-th facade operation, which calls
\* ensureAccessToken: `now = Date.now()`, the expiry test, and either the
\* grant request of the configured flow or an immediate return, after which
\* the operation issues its first request.
BeginOp(p, t, sh, k, pls, id) ==
  IF ShouldRefresh(clock, tokenExpirationTime)
  THEN /\ SetProc(p, "grant", k, 0, GrantFlow(refreshEnv), clock, "pending",
                  NoResult)
       /\ SetLocals(p, pls, id, NoArg)
  ELSE SendRequest(p, t, sh, k, 1, "skipped", pls, id)

\* A tool invocation arrives: the handler runs up to its first await.
Invoke(p, t, sh, a) ==
  /\ pc[p] \in {"idle", "done"}
  /\ tool' = [tool EXCEPT ![p] = t]
  /\ shuffle' = [shuffle EXCEPT ![p] = sh]
  /\ arg' = [arg EXCEPT ![p] = a]
  /\ BeginOp(p, t, sh, 1, <<>>, FirstOpId(t, a))
  /\ UNCHANGED <<clock, refreshEnv, tokenVars>>

\* Times at which the remote service may have issued the token of p's grant:
\* between the request and the response; the two extremes are taken.
IssueTimes(p) == {now[p], clock}

\* The grant response arrives: setAccessToken, tokenExpirationTime = ...,
\* ensureAccessToken returns and the operation issues its first request.
\* (faulty variant first: the expiry is only ever moved forward, so it may
\* stay that of another response)
GrantOkKeepsLaterExpiry(p, expiresIn, at) ==
  /\ pc[p] = "grant"
  /\ tokenSeq < MaxGrants
  /\ at \in IssueTimes(p)
  /\ tokenSeq' = tokenSeq + 1
  /\ accessToken' = tokenSeq + 1
  /\ tokenExpirationTime' =
       IF NewExpiration(now[p], expiresIn) > tokenExpirationTime
       THEN NewExpiration(now[p], expiresIn) ELSE tokenExpirationTime
  /\ stored' = [id |-> tokenSeq + 1, calledAt |-> now[p], issuedAt |-> at,
                doneAt |-> clock, expires_in |-> expiresIn]
  /\ SendRequest(p, tool[p], shuffle[p], opIdx[p], 1, "granted",
                 playlists[p], opId[p])
  /\ UNCHANGED <<clock, refreshEnv, tool, shuffle, arg>>
GrantOk(p, expiresIn, at) ==
  /\ pc[p] = "grant"
  /\ tokenSeq < MaxGrants
  /\ at \in IssueTimes(p)
  /\ tokenSeq' = tokenSeq + 1
  /\ accessToken' = tokenSeq + 1
  /\ tokenExpirationTime' = NewExpiration(now[p], expiresIn)
  /\ stored' = [id |-> tokenSeq + 1, calledAt |-> now[p], issuedAt |-> at,
                doneAt |-> clock, expires_in |-> expiresIn]
  /\ SendRequest(p, tool[p], shuffle[p], opIdx[p], 1, "granted",
                 playlists[p], opId[p])
  /\ UNCHANGED <<clock, refreshEnv, tool, shuffle, arg>>

\* The handler's continuation once its k-th facade operation returned text;
\* `pls` is the list of playlists the text is the JSON of, if it is one, and
\* the track found has a bare id.
OpReturns(p, text, e, pls) ==
  LET t == tool[p]
      k == opIdx[p]
  IN  CASE t = "spotify-search-and-play" /\ k = 1 ->
             IF text = NoTracksText
             THEN Finish(p, "text", <<"No tracks found matching ">>, e)
             ELSE IF IsJson(text)
             THEN BeginOp(p, t, shuffle[p], 2, <<>>, BareId)
             ELSE Finish(p, "text", HandlerCatchText(t, "SyntaxError"), e)
        [] t = "spotify-search-and-play" /\ k = 2 ->
             Finish(p, "text", <<"Found and playing: ">>, e)
        [] t = "spotify-find-playlist" /\ k = 1 ->
             IF text = NoPlaylistsText
             THEN Finish(p, "text", <<"No playlists found for your account.">>, e)
             ELSE IF IsJson(text)
             THEN IF Len(MatchingPlaylists(pls, arg[p])) = 0
                  THEN Finish(p, "text", <<"No playlists found matching ">>, e)
                  ELSE BeginOp(p, t, shuffle[p], 2, pls,
                               ChosenPlaylist(MatchingPlaylists(pls, arg[p])).id)
             ELSE Finish(p, "text", HandlerCatchText(t, "SyntaxError"), e)
        [] t = "spotify-find-playlist" /\ k = 2 ->
             Finish(p, "text",
                    <<"Found and playing playlist: ", ShuffleWords(shuffle[p])>>, e)
        [] OTHER -> Finish(p, "text", text, e)

\* ensureAccessToken throws: out of the operation unless the call is inside
\* the operation's try, and out of the handler unless the call of the
\* operation is inside the handler's try.
\* (faulty variant first: the operation goes on to its first request)
EnsureFailedGoesOn(p) ==
  SendRequest(p, tool[p], shuffle[p], opIdx[p], 1, "threw", playlists[p], opId[p])
EnsureFailed(p) ==
  LET t == tool[p]
      k == opIdx[p]
      op == HandlerOps(t)[k]
      msg == EnsureThrows(req[p])
  IN  IF EnsureInsideTry(op)
      THEN OpReturns(p, OpErrorText(op, AuthErrorString), "threw", <<>>)
      ELSE IF HandlerCatches(t, k)
      THEN Finish(p, "text", HandlerCatchText(t, AuthErrorString), "threw")
      ELSE Finish(p, "exception", <<msg>>, "threw")

\* The grant is rejected or the transport fails.
\* (faulty variants first: a failed refresh-token grant falls back to the
\* client-credentials grant; a failure writes tokenExpirationTime)
GrantFailFallsBack(p) ==
  /\ pc[p] = "grant"
  /\ IF req[p] = "refresh_token"
     THEN /\ SetProc(p, "grant", opIdx[p], 0, "client_credentials", now[p],
                     "pending", NoResult)
          /\ UNCHANGED <<playlists, opId, sent>>
     ELSE EnsureFailed(p)
  /\ UNCHANGED <<clock, refreshEnv, tokenVars, tool, shuffle, arg>>
GrantFailBacksOff(p) ==
  /\ pc[p] = "grant"
  /\ EnsureFailed(p)
  /\ tokenExpirationTime' = clock + Margin + Margin
  /\ UNCHANGED <<clock, refreshEnv, accessToken, stored, tokenSeq, tool, shuffle,
                 arg>>
GrantFail(p) ==
  /\ pc[p] = "grant"
  /\ EnsureFailed(p)
  /\ UNCHANGED <<clock, refreshEnv, tokenVars, tool, shuffle, arg>>

\* After the r-th request of the operation: the next request, or the
\* operation returns `text`.
NextRequestOr(p, text, pls) ==
  LET t == tool[p]
      k == opIdx[p]
      reqs == OpRequests(HandlerOps(t)[k], shuffle[p])
  IN  IF reqIdx[p] < Len(reqs)
      THEN SendRequest(p, t, shuffle[p], k, reqIdx[p] + 1, "none",
                       playlists[p], opId[p])
      ELSE OpReturns(p, text, "none", pls)

\* The playlists an answer may list.
AnsweredPlaylists(r, a) ==
  IF r = "getUserPlaylists" /\ a = "items" THEN PlaylistLists ELSE {<<>>}

\* The remote service answers p's request.
RequestOk(p, a, pls) ==
  /\ pc[p] = "request"
  /\ a \in Answers(req[p])
  /\ pls \in AnsweredPlaylists(req[p], a)
  /\ NextRequestOr(p, OpOkText(HandlerOps(tool[p])[opIdx[p]], shuffle[p], a),
                   pls)
  /\ UNCHANGED <<clock, refreshEnv, tokenVars, tool, shuffle, arg>>

\* p's request fails with an error whose text contains the markers `err`.
RequestFail(p, err) ==
  LET op == HandlerOps(tool[p])[opIdx[p]]
  IN  /\ pc[p] = "request"
      /\ IF RequestFailureEndsOp(op)
         THEN OpReturns(p, OpErrorText(op, err), "none", <<>>)
         ELSE NextRequestOr(p, OpOkText(op, shuffle[p], "ok"), <<>>)
      /\ UNCHANGED <<clock, refreshEnv, tokenVars, tool, shuffle, arg>>

\* Time passes.
Advance ==
  /\ clock < MaxTicks * Tick
  /\ clock' = clock + Tick
  /\ UNCHANGED <<refreshEnv, tokenVars, pc, tool, shuffle, opIdx, reqIdx, req,
                 now, ensured, result, arg, playlists, opId, sent>>

\* The tools T are invoked, with every value of the arguments (`full`) or
\* with one.
Calls(P, T, full) ==
  \E p \in P, t \in T :
    \E sh \in ShuffleValues(t),
       a \in IF full THEN ArgValues(t) ELSE {PlainArg(t)} : Invoke(p, t, sh, a)

\* The remote service responds; L are the lists of playlists it may answer.
Responses(P, L) ==
  \/ \E p \in P, l \in Lifetimes : \E at \in IssueTimes(p) : GrantOk(p, l, at)
  \/ \E p \in P : GrantFail(p)
  \/ \E p \in P : \E a \in {"items", "empty", "ok"} :
       \E pls \in L \cup {<<>>} : RequestOk(p, a, pls)
  \/ \E p \in P, err \in RemoteErrors : RequestFail(p, err)

\* The steps of the invocations P when the tools T are invoked.
Step(P, T) ==
  \/ Calls(P, T, FALSE)
  \/ Responses(P, PlainPlaylists)
  \/ Advance

\* Concurrent invocations of the convenience tool whose handler calls two
\* facade operations, hence ensureAccessToken twice: the first call outside
\* the handler's try block, the second one inside it.
ConcurrentTools == {"spotify-search-and-play"}
Next == Step(Procs, ConcurrentTools)
Spec == Init /\ [][Next]_vars

\* One invocation at a time, of any tool.
NextTools == Step({1}, Tools)
SpecTools == Init /\ [][NextTools]_vars

\* One invocation at a time, of any tool with any arguments and any
\* playlists of the user, within one instant (what is done with the
\* arguments does not depend on the time).
NextArgs ==
  \/ Calls({1}, Tools, TRUE)
  \/ Responses({1}, PlaylistLists)
SpecArgs == Init /\ [][NextArgs]_vars

\* ------------------------------------------------------------ properties
\* Steps of invocation p, read off the variables.
\* p's handler calls a facade operation, hence ensureAccessToken, in this step.
EnsureBegins(p) ==
  \/ pc[p] \in {"idle", "done"} /\ pc'[p] \in {"grant", "request"}
  \/ pc[p] = "request" /\ opIdx'[p] # opIdx[p]
\* p's ensureAccessToken call returns without error in this step.
EnsureReturns(p) ==
  /\ pc'[p] = "request" /\ reqIdx'[p] = 1
  /\ pc[p] # "request" \/ opIdx'[p] # opIdx[p]
\* A grant request of p is on its way after this step that was not before.
GrantIssued(p) ==
  /\ pc'[p] = "grant"
  /\ pc[p] # "grant" \/ req'[p] # req[p]
\* The time for which the stored token is still valid at the remote service.
RemoteValidity == stored.issuedAt + stored.expires_in * 1000 - clock
MaxLifetime == CHOOSE l \in Lifetimes : \A m \in Lifetimes : m <= l

\* C1 (as stated): a call made less than 60 s after the last successful grant
\* completed issues no grant request and leaves the token value unchanged,
\* whatever lifetime that grant returned.
C1_AnyLifetime ==
  [][\A p \in Procs :
       (EnsureBegins(p) /\ stored.id # 0 /\ clock < stored.doneAt + 60000)
         => (~GrantIssued(p) /\ accessToken' = accessToken)]_vars

\* C1 (amended): a call made less than 60 s after the last successful grant
\* completed issues no grant request and leaves the token value unchanged,
\* provided the lifetime that grant returned is at least 180 s longer than the
\* time its call took.
C1_NoRedundantRefresh ==
  [][\A p \in Procs :
       (/\ EnsureBegins(p) /\ stored.id # 0
        /\ clock < stored.doneAt + 60000
        /\ stored.expires_in * 1000 >= 180000 + (stored.doneAt - stored.calledAt))
         => (~GrantIssued(p) /\ accessToken' = accessToken)]_vars

\* Only one grant has succeeded, and a call made 30 s after it returned at once.
C1_Witness ==
  \E p \in Procs :
    /\ pc[p] = "request" /\ reqIdx[p] = 1 /\ ensured[p] = "skipped"
    /\ tokenSeq = 1 /\ clock < stored.doneAt + 60000 /\ clock > stored.doneAt
    /\ stored.expires_in * 1000 >= 180000 + (stored.doneAt - stored.calledAt)

\* C2: a call of ensureAccessToken issues a grant request if and only if
\* now >= expires_at - 60 s; otherwise it returns at once and leaves the token
\* value and expires_at unchanged.
C2_RefreshIffDue ==
  [][\A p \in Procs :
       EnsureBegins(p) =>
         /\ GrantIssued(p) <=> (clock >= tokenExpirationTime - 60000)
         /\ (clock < tokenExpirationTime - 60000) =>
              /\ EnsureReturns(p)
              /\ accessToken' = accessToken
              /\ tokenExpirationTime' = tokenExpirationTime]_vars

\* The call before the boundary returned at once; with the next call, made at
\* now = expires_at - 60 s exactly, a grant request is on its way.
C2_Witness ==
  \E p \in Procs :
    /\ pc[p] = "grant" /\ tokenSeq = 1 /\ stored.doneAt < now[p]
    /\ now[p] = tokenExpirationTime - 60000
    /\ opIdx[p] = 2

\* C3: a call made when the stored expires_at has elapsed issues one grant
\* request, with `now` the time at the start of the call; the call issues no
\* further grant request, and when the grant succeeds expires_at becomes
\* now + lifetime - 60 s.
C3_RefreshAfterExpiry ==
  [][\A p \in Procs :
       /\ (EnsureBegins(p) /\ clock >= tokenExpirationTime)
            => (GrantIssued(p) /\ now'[p] = clock)
       /\ pc[p] = "grant" =>
            /\ ~GrantIssued(p)
            /\ pc'[p] = "grant" => now'[p] = now[p]
            /\ EnsureReturns(p) =>
                 /\ stored'.expires_in \in Lifetimes
                 /\ tokenExpirationTime' =
                      now[p] + stored'.expires_in * 1000 - 60000]_vars

\* The second token was requested by a call that began when every expires_at
\* the first one can have had has elapsed.
C3_Witness ==
  \E p \in Procs :
    /\ pc[p] = "request" /\ reqIdx[p] = 1 /\ ensured[p] = "granted"
    /\ stored.id = 2 /\ accessToken = 2
    /\ stored.calledAt >= MaxLifetime * 1000 - 60000
    /\ tokenExpirationTime = stored.calledAt + stored.expires_in * 1000 - 60000

\* C4 (as stated): whenever ensureAccessToken returns without error, the stored
\* token is valid at the remote service for at least 60 more seconds.
C4_AlwaysValid60 ==
  [][\A p \in Procs :
       EnsureReturns(p) =>
         stored'.issuedAt + stored'.expires_in * 1000 >= clock' + 60000]_vars

\* C4 (amended): whenever ensureAccessToken returns without error, the stored
\* token is valid at the remote service for at least 60 more seconds if the
\* call returned at once, and if it refreshed, whenever the lifetime granted
\* is at least 60 s longer than the time the call took.
C4_Valid60 ==
  [][\A p \in Procs :
       (/\ EnsureReturns(p)
        /\ pc[p] = "grant" => stored'.expires_in * 1000 >= 60000 + (clock - now[p]))
         => /\ stored'.id = accessToken' /\ accessToken' # 0
            /\ stored'.issuedAt + stored'.expires_in * 1000 >= clock' + 60000]_vars

\* A call that returned at once some time after the grant.
C4_Witness ==
  \E p \in Procs :
    /\ pc[p] = "request" /\ reqIdx[p] = 1 /\ ensured[p] = "skipped"
    /\ opIdx[p] = 1
    /\ accessToken # 0 /\ clock > stored.doneAt
    /\ RemoteValidity >= 60000

C6_FlowFollowsCredential ==
  \A p \in Procs :
    pc[p] = "grant" =>
      /\ req[p] \in {"refresh_token", "client_credentials"}
      /\ req[p] = "refresh_token" <=> refreshEnv \notin {Undefined, ""}

\* A later attempt (a token was granted before) without a credential.
C6_Witness ==
  \E p \in Procs :
    /\ pc[p] = "grant" /\ req[p] = "client_credentials"
    /\ refreshEnv = "" /\ tokenSeq >= 1

\* C7: the token state starts unset (no token, expires_at 0); every call made
\* before any grant has succeeded issues a grant request; and the token value
\* and expires_at are written only in the step that processes a successful
\* grant response.
C7_ValidOnlyByGrant ==
  /\ accessToken = 0 /\ tokenExpirationTime = 0
  /\ [][/\ \A p \in Procs : (EnsureBegins(p) /\ tokenSeq = 0) => GrantIssued(p)
        /\ (accessToken' # accessToken \/ tokenExpirationTime' # tokenExpirationTime)
             => \E p \in Procs :
                  /\ pc[p] = "grant" /\ EnsureReturns(p)
                  /\ tokenSeq' = tokenSeq + 1 /\ accessToken' = tokenSeq']_vars

\* The first grant has succeeded, after another call's grant failed.
C7_Witness ==
  \E p, q \in Procs :
    /\ tokenSeq = 1 /\ accessToken = 1 /\ ensured[p] = "granted"
    /\ pc[p] = "request"
    /\ ensured[q] = "threw"

C9_NoMutualExclusion ==
  [][\A p, q \in Procs :
       (/\ p # q /\ pc[q] = "grant" /\ EnsureBegins(p)
        /\ clock >= tokenExpirationTime - 60000)
         => (GrantIssued(p) /\ pc'[q] = "grant")]_vars

C9_Witness ==
  \E p, q \in Procs : p # q /\ pc[p] = "grant" /\ pc[q] = "grant"

\* C10: in every state with a token stored, the token value and expires_at
\* come from the same grant response, the last one processed, and the token is
\* valid at the remote service at least until expires_at.
C10_BenignRace ==
  accessToken # 0 =>
    /\ stored.id = accessToken /\ accessToken = tokenSeq
    /\ stored.expires_in \in Lifetimes
    /\ tokenExpirationTime = stored.calledAt + stored.expires_in * 1000 - 60000
    /\ stored.issuedAt + stored.expires_in * 1000 >= tokenExpirationTime

\* In the middle of the race: one call's grant has been written, and the
\* other call, which began before that response was processed, still awaits
\* its grant.
C10_Witness ==
  \E p, q \in Procs :
    /\ p # q /\ tokenSeq = 1 /\ accessToken = 1
    /\ ensured[p] = "granted" /\ pc[p] = "request"
    /\ pc[q] = "grant" /\ now[q] < stored.doneAt

\* The facade operation invocation p is in.
CurrentOp(p) == HandlerOps(tool[p])[opIdx[p]]

\* C11 (as stated): in spotify-play, spotify-playlist-tracks and
\* spotify-play-playlist, given a bare id or the full URI of the operation's
\* resource type, every remote request that carries the identifier carries
\* it in the URI form spotify:<type>:<id>.
C11_RequestsCarryUri ==
  \A p \in Procs :
    (pc[p] = "request" /\ req[p] # "setShuffle") =>
      /\ (/\ tool[p] = "spotify-play"
          /\ arg[p] \in {<<"abc">>, <<"spotify", ":", "track", ":", "abc">>})
           => sent[p] = <<"spotify", ":", "track", ":", "abc">>
      /\ (/\ tool[p] \in {"spotify-playlist-tracks", "spotify-play-playlist"}
          /\ arg[p] \in {<<"abc">>, <<"spotify", ":", "playlist", ":", "abc">>})
           => sent[p] = <<"spotify", ":", "playlist", ":", "abc">>

\* C12: the normalization of playTrack and of playPlaylist is idempotent:
\* normalizing the identifier their play request carries gives that identifier
\* again, whatever the input was; and an input that is already a URI of the
\* operation's own resource type is carried unchanged.
C12_NormalizeIdempotent ==
  \A p \in Procs :
    (pc[p] = "request" /\ req[p] = "play") =>
      /\ CurrentOp(p) = "playTrack" =>
           /\ TrackUri(sent[p]) = sent[p]
           /\ opId[p] = <<"spotify", ":", "track", ":", "abc">>
                => sent[p] = opId[p]
      /\ CurrentOp(p) = "playPlaylist" =>
           /\ PlaylistUri(sent[p]) = sent[p]
           /\ opId[p] = <<"spotify", ":", "playlist", ":", "abc">>
                => sent[p] = opId[p]

\* The play request of playTrack is on its way for an input that is a track
\* URI, and carries it as it was given.
C12_Witness ==
  \E p \in Procs :
    /\ pc[p] = "request" /\ req[p] = "play" /\ tool[p] = "spotify-play"
    /\ arg[p] = <<"spotify", ":", "track", ":", "abc">>
    /\ sent[p] = arg[p]

\* The fixed messages of the playback operations.
PremiumText ==
  <<"Error: This functionality requires a Spotify Premium account.">>
PermissionText ==
  <<"Error: Missing required permissions. Make sure your refresh token has the user-modify-playback-state scope.">>
NoDeviceText ==
  <<"Error: No active Spotify playback device found. Please open Spotify on a device first.">>
PlayTools == {"spotify-play", "spotify-play-playlist"}
\* The text is a prefix followed by the raw error text.
HoldsRaw(text, err) == Len(text) = 2 /\ text[2] = err

\* C13 (as stated): when a remote request of spotify-play or
\* spotify-play-playlist fails, an error text containing NO_ACTIVE_DEVICE
\* gives exactly the no-active-device message, one containing NOT_PREMIUM the
\* Premium message, one containing PERMISSION the permissions message, and one
\* containing none of the three a message that holds the raw error text.
C13_MarkerFixesText ==
  [][\A p \in Procs, err \in RemoteErrors :
       (RequestFail(p, err) /\ tool[p] \in PlayTools) =>
         /\ "NO_ACTIVE_DEVICE" \in err => result'[p].text = NoDeviceText
         /\ "NOT_PREMIUM" \in err => result'[p].text = PremiumText
         /\ "PERMISSION" \in err => result'[p].text = PermissionText
         /\ err = {} => HoldsRaw(result'[p].text, err)]_vars

\* C13 (amended): when a remote request of spotify-play or
\* spotify-play-playlist fails, the tool answers with a text: the Premium
\* message if the error text contains NOT_PREMIUM; otherwise the permissions
\* message if it contains PERMISSION; otherwise the no-active-device message
\* if it contains NO_ACTIVE_DEVICE; otherwise a message that holds the raw
\* error text.
C13_ErrorClassification ==
  [][\A p \in Procs, err \in RemoteErrors :
       (RequestFail(p, err) /\ tool[p] \in PlayTools) =>
         /\ pc'[p] = "done" /\ result'[p].kind = "text"
         /\ "NOT_PREMIUM" \in err => result'[p].text = PremiumText
         /\ ("PERMISSION" \in err /\ "NOT_PREMIUM" \notin err)
              => result'[p].text = PermissionText
         /\ ("NO_ACTIVE_DEVICE" \in err /\ "NOT_PREMIUM" \notin err
                                        /\ "PERMISSION" \notin err)
              => result'[p].text = NoDeviceText
         /\ err = {} =>
              /\ HoldsRaw(result'[p].text, err)
              /\ result'[p].text \notin {PremiumText, PermissionText, NoDeviceText}]_vars

\* spotify-play-playlist has answered with the no-active-device message.
C13_Witness ==
  \E p \in Procs :
    /\ pc[p] = "done" /\ tool[p] = "spotify-play-playlist"
    /\ result[p] = [kind |-> "text", text |-> NoDeviceText]

\* C14: in spotify-find-playlist, whenever the list of the user's playlists
\* holds a playlist whose name contains `name` case-insensitively, the handler
\* calls playPlaylist with the id of the first such playlist of the list and
\* with the shuffle flag it was given (false when none was given), and it
\* makes no second playPlaylist call in the invocation.
C14_FirstMatchPlayedOnce ==
  [][\A p \in Procs :
       tool[p] = "spotify-find-playlist" =>
         /\ \A pls \in PlaylistLists :
              (/\ RequestOk(p, "items", pls) /\ opIdx[p] = 1
               /\ \E i \in 1 .. Len(pls) : IsMatch(pls[i], arg[p]))
                => /\ opIdx'[p] = 2 /\ pc'[p] \in {"grant", "request"}
                   /\ playlists'[p] = pls
                   /\ \E i \in 1 .. Len(pls) :
                        /\ IsMatch(pls[i], arg[p])
                        /\ \A j \in 1 .. (i - 1) : ~IsMatch(pls[j], arg[p])
                        /\ opId'[p] = pls[i].id
         /\ (opIdx[p] = 2 /\ pc[p] # "done") =>
              \/ pc'[p] = "done"
              \/ opIdx'[p] = 2 /\ opId'[p] = opId[p] /\ reqIdx'[p] >= reqIdx[p]
         /\ (pc[p] = "request" /\ pc'[p] = "request" /\ req'[p] = "setShuffle") =>
              sent'[p] = <<IF shuffle[p] = "true" THEN "true" ELSE "false">>
         /\ (pc[p] = "request" /\ pc'[p] = "request" /\ req'[p] = "play") =>
              sent'[p] = <<"spotify", ":", "playlist", ":">> \o opId[p]]_vars

\* The play request is on its way for the first of two playlists that both
\* match "roadtrip", the second one being "Summer Roadtrip".
C14_Witness ==
  \E p \in Procs :
    /\ tool[p] = "spotify-find-playlist" /\ pc[p] = "request" /\ req[p] = "play"
    /\ arg[p] = <<"roadtrip">> /\ shuffle[p] = "true"
    /\ Len(playlists[p]) = 2
    /\ playlists[p][1].name = <<"ROADTRIP">>
    /\ playlists[p][2].name = <<"Summer", " ", "Roadtrip">>
    /\ sent[p] = <<"spotify", ":", "playlist", ":", "p3">>

ConvenienceTools == {"spotify-search-and-play", "spotify-find-playlist"}
NotFoundTexts == {<<"No tracks found matching ">>,
                  <<"No playlists found for your account.">>,
                  <<"No playlists found matching ">>}

\* C15: in spotify-search-and-play and spotify-find-playlist, when step one
\* fails (the search or list request, or its token check), finds nothing, or
\* finds no playlist whose name matches, the handler ends without calling the
\* play operation; when it finds nothing or nothing that matches the answer is
\* a "not found" text, and that text is given in no other case.
C15_NoPlayWithoutMatch ==
  [][\A p \in Procs :
       (tool[p] \in ConvenienceTools /\ opIdx[p] = 1 /\ pc[p] \in {"grant", "request"})
         => /\ \A err \in RemoteErrors :
                 RequestFail(p, err) =>
                   /\ pc'[p] = "done" /\ opIdx'[p] = 1
                   /\ result'[p].text \notin NotFoundTexts
            /\ GrantFail(p) =>
                   /\ pc'[p] = "done" /\ opIdx'[p] = 1
                   /\ result'[p].text \notin NotFoundTexts
            /\ RequestOk(p, "empty", <<>>) =>
                   /\ pc'[p] = "done" /\ opIdx'[p] = 1
                   /\ result'[p].kind = "text"
                   /\ result'[p].text =
                        IF tool[p] = "spotify-search-and-play"
                        THEN <<"No tracks found matching ">>
                        ELSE <<"No playlists found for your account.">>
            /\ \A pls \in PlaylistLists :
                 (/\ RequestOk(p, "items", pls)
                  /\ tool[p] = "spotify-find-playlist"
                  /\ \A i \in 1 .. Len(pls) : ~IsMatch(pls[i], arg[p]))
                   => /\ pc'[p] = "done" /\ opIdx'[p] = 1
                      /\ result'[p].kind = "text"
                      /\ result'[p].text = <<"No playlists found matching ">>
            /\ opIdx'[p] = 2 =>
                 \E pls \in PlaylistLists \cup {<<>>} :
                   /\ RequestOk(p, "items", pls)
                   /\ tool[p] = "spotify-find-playlist" =>
                        \E i \in 1 .. Len(pls) : IsMatch(pls[i], arg[p])]_vars

\* spotify-find-playlist has answered "not found" for a name that no playlist
\* of the list matches.
C15_Witness ==
  \E p \in Procs :
    /\ pc[p] = "done" /\ opIdx[p] = 1 /\ tool[p] = "spotify-find-playlist"
    /\ arg[p] = <<"jazz">>
    /\ result[p] = [kind |-> "text", text |-> <<"No playlists found matching ">>]

\* What the facade operation p awaits returns when its request fails with
\* `err`, and when its last request is answered with `a`.
ReturnedOnFailure(p, err) ==
  IF RequestFailureEndsOp(CurrentOp(p)) THEN OpErrorText(CurrentOp(p), err)
  ELSE OpOkText(CurrentOp(p), shuffle[p], "ok")
ReturnedOnAnswer(p, a) == OpOkText(CurrentOp(p), shuffle[p], a)

\* C16 (as stated): when the last facade operation a handler calls returns,
\* the tool's response is the text that operation returned, unchanged; in the
\* two convenience tools this is the text of the play operation, an error
\* text included.
C16_ReturnsOpTextUnchanged ==
  [][\A p \in Procs :
       (/\ pc[p] = "request" /\ pc'[p] = "done"
        /\ opIdx[p] = Len(HandlerOps(tool[p])))
         => /\ result'[p].kind = "text"
            /\ \A err \in RemoteErrors :
                 RequestFail(p, err) => result'[p].text = ReturnedOnFailure(p, err)
            /\ \A a \in {"items", "empty", "ok"} :
                 RequestOk(p, a, <<>>) => result'[p].text = ReturnedOnAnswer(p, a)]_vars

\* p issues a remote request in this step.
RequestIssued(p) ==
  /\ pc'[p] = "request"
  /\ pc[p] # "request" \/ reqIdx'[p] # reqIdx[p] \/ opIdx'[p] # opIdx[p]
\* The facade operation p awaits ends in this step.
OpEnds(p) == pc'[p] = "done" \/ opIdx'[p] # opIdx[p]

C17_Requests(op) ==
  CASE op = "searchTracks"        -> <<"searchTracks">>
    [] op = "playTrack"           -> <<"play">>
    [] op = "getCurrentlyPlaying" -> <<"getMyCurrentPlayingTrack">>
    [] op = "getDevices"          -> <<"getMyDevices">>
    [] op = "getUserPlaylists"    -> <<"getUserPlaylists">>
    [] op = "getPlaylistTracks"   -> <<"getPlaylist", "getPlaylistTracks">>
    [] op = "playPlaylist"        -> <<"getPlaylist", "setShuffle", "play">>
    [] op = "debugSpotifyConfig"  -> <<"getMe", "getMyDevices">>

C18_CheckBeforeRequests ==
  [][\A p \in Procs :
       /\ pc[p] = "grant" => reqIdx[p] = 0
       /\ (RequestIssued(p) /\ reqIdx'[p] = 1) =>
            \/ /\ pc[p] # "grant" /\ ensured'[p] = "skipped"
               /\ accessToken # 0 /\ clock < tokenExpirationTime - 60000
               /\ UNCHANGED tokenVars
            \/ /\ pc[p] = "grant" /\ ensured'[p] = "granted"
               /\ tokenSeq' = tokenSeq + 1 /\ accessToken' = tokenSeq'
       /\ (RequestIssued(p) /\ reqIdx'[p] # 1) =>
            /\ pc[p] = "request" /\ opIdx'[p] = opIdx[p]
            /\ reqIdx[p] >= 1
       /\ GrantFail(p) =>
            /\ reqIdx[p] = 0
            /\ pc'[p] = "done" /\ ensured'[p] = "threw" /\ req'[p] = "none"]_vars

\* debugSpotifyConfig's check threw inside its try block: the tool answered
\* with the failure, and issued neither getMe nor getMyDevices.
C18_Witness ==
  \E p \in Procs :
    /\ pc[p] = "done" /\ ensured[p] = "threw" /\ tool[p] = "spotify-debug"
    /\ result[p].kind = "text"
    /\ result[p].text[2] = "Failed to get access token: "

====
